---- MODULE Spec2Model ----
(***************************************************************************)
(* The review session of ImageReviewer (src/Image.py) and VideoReviewer    *)
(* (src/Video.py): the queue of paths, the cursor, the undo history, the   *)
(* two counters, and the two directories the handlers rename files         *)
(* between (the reviewed folder and its _deleted subdirectory).            *)
(*                                                                         *)
(* One behaviour is one session of one reviewer.  The handlers are         *)
(* modelled as the methods the classes define, one action per call, whole  *)
(* call (nested show_image / delete_image included).  A VideoReviewer      *)
(* handler that reaches root.update() is one action up to that point; the  *)
(* event loop then dispatches other handlers before update() returns.      *)
(* Widgets and the media player hold no session state and are left out.    *)
(*                                                                         *)
(* Python indices are kept 0-based: the current item is paths[index + 1].  *)
(***************************************************************************)
EXTENDS Integers, Sequences, FiniteSets, TLC

\* Bound: how many media files the reviewed folder can hold at start.
MaxFiles == 3

\* Bound: how many files an earlier session left in _deleted.
MaxOld == 1

\* Bound: how many handlers may be inside root.update() at once.
MaxNesting == 1

\* tk.Scale(from_=0, to=1000): the seek bar's range
SeekTo == 1000

\* Directory entries by basename.  0 is an entry whose lower-cased name ends
\* with none of the extensions (a text file, the _deleted directory itself);
\* 1..MaxFiles end with one of them.
Names == 0..MaxFiles

\* f.lower().endswith(exts)
endswith_exts(f) == f \in 1..MaxFiles

\* str.lower as the sort key: not injective, names 1 and 2 (3 and 4, ...)
\* differ in case only.
lower_key(f) == (f + 1) \div 2

\* What a directory holds under a basename: nothing, the file that was in the
\* reviewed folder when the session started ("cur"), or another file of that
\* name left in _deleted by an earlier session ("old").
Content == {"none", "cur", "old"}

VARIABLES
    reviewer,        \* "image" (ImageReviewer) or "video" (VideoReviewer)
    platform,        \* "posix" or "windows": decides os.rename onto an existing file
    phase,           \* "init" before select_folder, "running", "closed" after quit
    folder_files,    \* the reviewed folder: basename -> Content
    deleted_files,   \* the _deleted directory: basename -> Content
    deleted_dir,     \* whether the _deleted directory exists
    unreadable,      \* basenames of files Image.open cannot load
    deleted_folder,  \* self.deleted_folder is set (not None)
    paths,           \* self.image_paths / self.video_paths
    index,           \* self.index
    deleted_count,   \* self.deleted_count
    kept_count,      \* self.kept_count
    history,         \* self.history
    scan,            \* the queue as select_folder built it (never written again)
    last,            \* the last call: [op, fs, exc, deletes]
    before,          \* the session state when the last handler call started
    run,             \* [clean, fwd, back]: the calls so far are fwd moves then back undos
    purge_ran,       \* shutil.rmtree has been called on the _deleted directory
    in_update,       \* VideoReviewer: handlers that are inside root.update()
    user_is_seeking  \* VideoReviewer: self.user_is_seeking

vars == <<reviewer, platform, phase, folder_files, deleted_files, deleted_dir,
          unreadable, deleted_folder, paths, index, deleted_count, kept_count,
          history, scan, last, before, run, purge_ran, in_update, user_is_seeking>>

gui == <<in_update, user_is_seeking>>

env == <<reviewer, platform, unreadable>>

\* The session state as one record: what a handler reads and writes.  `calls`
\* counts the delete_image calls entered since the handler started.
Cur ==
    [paths |-> paths, index |-> index, history |-> history,
     deleted_count |-> deleted_count, kept_count |-> kept_count,
     folder_files |-> folder_files, deleted_files |-> deleted_files,
     deleted_dir |-> deleted_dir, calls |-> 0]

\* The VideoReviewer object as the seek handlers see it.
Self == [session |-> Cur, user_is_seeking |-> user_is_seeking]

Max(a, b) == IF a >= b THEN a ELSE b
Min(a, b) == IF a <= b THEN a ELSE b

\* Mutant of list_insert: the item is put at the end of the list.
list_insert_appends(lst, i, x) == Append(lst, x)

\* del lst[i] and lst.insert(i, x), i 0-based and in range
list_del(lst, i) == SubSeq(lst, 1, i) \o SubSeq(lst, i + 2, Len(lst))
list_insert(lst, i, x) == SubSeq(lst, 1, i) \o <<x>> \o SubSeq(lst, i + 1, Len(lst))

\* lst.index(x): the 0-based position of the first x, or -1 for ValueError
list_index(lst, x) ==
    IF \E i \in 1..Len(lst) : lst[i] = x
    THEN (CHOOSE i \in 1..Len(lst) : lst[i] = x /\ \A j \in 1..(i - 1) : lst[j] # x) - 1
    ELSE -1

\* os.rename(src/f, dst/f) raises: the source is missing, the destination
\* directory is missing, the destination exists and the platform refuses to
\* replace it, or the operating system denies the move.
rename_raises(src, dst, dst_dir, f, denied) ==
    \/ denied
    \/ src[f] = "none"
    \/ ~dst_dir
    \/ (dst[f] # "none" /\ platform = "windows")

\* The directories after os.rename(src/f, dst/f) succeeded: the file leaves
\* src and replaces whatever dst held under that name.
rename_src(src, f) == [src EXCEPT ![f] = "none"]
rename_dst(src, dst, f) == [dst EXCEPT ![f] = src[f]]

(***************************************************************************)
(* ImageReviewer.  show_image and delete_image call each other: a file     *)
(* that cannot be loaded is deleted from inside show_image.  `fails` is    *)
(* the set of basenames whose move the operating system denies during the  *)
(* call.                                                                   *)
(*                                                                         *)
(* delete_image, keep_image and go_back take no event argument, yet        *)
(* __init__ binds them to key events: Tk calls a binding with the event,   *)
(* so a key press raises TypeError before the body runs.  The model makes  *)
(* the calls the way show_image makes its own (line 101), with no          *)
(* argument: it describes what the methods do once called.                 *)
(***************************************************************************)

\* the guard every handler starts with: self.index >= len(self.image_paths)
exhausted(s) == s.index >= Len(s.paths)

\* Image.open(path).convert("RGB") raises
image_open_raises(s, f) == s.folder_files[f] = "none" \/ f \in unreadable

\* Mutant of show_image: an item that cannot be loaded is left on display.
show_image_ignores_broken(s, fails) == s

RECURSIVE show_image(_, _)
RECURSIVE delete_image(_, _)

show_image(s, fails) ==
    IF exhausted(s) THEN s
    ELSE IF image_open_raises(s, s.paths[s.index + 1])
         THEN delete_image(s, fails)
         ELSE s

delete_image(s, fails) ==
    IF exhausted(s) THEN [s EXCEPT !.calls = @ + 1]
    ELSE LET original_path == s.paths[s.index + 1]
             raises == rename_raises(s.folder_files, s.deleted_files, s.deleted_dir,
                                     original_path, original_path \in fails)
             moved == IF raises
                      THEN s
                      ELSE [s EXCEPT
                              !.folder_files = rename_src(s.folder_files, original_path),
                              !.deleted_files = rename_dst(s.folder_files, s.deleted_files,
                                                           original_path),
                              !.history = Append(@, <<"delete", original_path, original_path>>),
                              !.deleted_count = @ + 1]
         IN show_image([moved EXCEPT !.paths = list_del(@, s.index), !.calls = @ + 1], fails)

\* Mutant of keep_image: the kept item is taken out of the queue, as delete
\* does, instead of the cursor moving past it.
keep_image_removes_item(s, fails) ==
    IF exhausted(s) THEN s
    ELSE show_image([s EXCEPT !.history = Append(@, <<"keep", s.paths[s.index + 1]>>),
                              !.kept_count = @ + 1,
                              !.paths = list_del(@, s.index)],
                    fails)

\* Mutant of keep_image: the cursor moves on and the counter is not written.
keep_image_skips_count(s, fails) ==
    IF exhausted(s) THEN s
    ELSE show_image([s EXCEPT !.history = Append(@, <<"keep", s.paths[s.index + 1]>>),
                              !.index = @ + 1],
                    fails)

keep_image(s, fails) ==
    IF exhausted(s) THEN s
    ELSE show_image([s EXCEPT !.history = Append(@, <<"keep", s.paths[s.index + 1]>>),
                              !.kept_count = @ + 1,
                              !.index = @ + 1],
                    fails)

\* The exception go_back raises, "" for none.  A delete entry has three
\* fields and is unpacked into two names (ValueError, right after the pop);
\* a keep entry is passed whole, a tuple, to os.path.basename (TypeError,
\* after the counter and the index were written, before show_image).
go_back_image_exc(s) ==
    IF s.history = <<>> THEN ""
    ELSE LET action_tup == s.history[Len(s.history)]
         IN IF action_tup[1] = "delete"
            THEN IF Len(action_tup) # 2 THEN "ValueError" ELSE ""
            ELSE "TypeError"

go_back_image(s, fails) ==
    IF s.history = <<>> THEN s
    ELSE LET action_tup == s.history[Len(s.history)]
             popped == [s EXCEPT !.history = SubSeq(@, 1, Len(@) - 1)]
         IN IF action_tup[1] = "delete"
            THEN IF Len(action_tup) # 2
                 THEN popped
                 ELSE LET deleted_path == action_tup[1]
                          original_path == action_tup[2]
                          raises == rename_raises(s.deleted_files, s.folder_files, TRUE,
                                                  original_path, original_path \in fails)
                          restored ==
                              IF raises
                              THEN popped
                              ELSE [popped EXCEPT
                                      !.deleted_files = rename_src(s.deleted_files, original_path),
                                      !.folder_files = rename_dst(s.deleted_files, s.folder_files,
                                                                  original_path)]
                      IN show_image([restored EXCEPT
                                       !.paths = list_insert(@, s.index, original_path),
                                       !.deleted_count = @ - 1],
                                    fails)
            ELSE [popped EXCEPT !.kept_count = @ - 1,
                                !.index = Max(0, @ - 1)]

(***************************************************************************)
(* VideoReviewer.  show_video only drives the media player; `denied` says  *)
(* that the operating system denies the handler's one move.                *)
(***************************************************************************)

\* Mutant of index_after_delete: the cursor is advanced after the removal.
index_after_delete_advances(i, n) == i + 1

\* delete_video, after del self.video_paths[self.index]: n is the new length
index_after_delete(i, n) == IF i >= n THEN Max(0, n) ELSE i

delete_video(s, denied) ==
    IF exhausted(s) THEN s
    ELSE LET original_path == s.paths[s.index + 1]
             raises == rename_raises(s.folder_files, s.deleted_files, s.deleted_dir,
                                     original_path, denied)
         IN IF raises
            THEN s
            ELSE [s EXCEPT
                    !.folder_files = rename_src(s.folder_files, original_path),
                    !.deleted_files = rename_dst(s.folder_files, s.deleted_files, original_path),
                    !.history = Append(@, <<"delete", original_path, original_path, s.index>>),
                    !.deleted_count = @ + 1,
                    !.paths = list_del(@, s.index),
                    !.index = index_after_delete(s.index, Len(s.paths) - 1)]

\* Mutant of keep_video: the counter is written before the guard is tested.
keep_video_counts_first(s) ==
    LET c == [s EXCEPT !.kept_count = @ + 1]
    IN IF exhausted(s) THEN c
       ELSE [c EXCEPT !.history = Append(@, <<"keep", s.paths[s.index + 1], s.index>>),
                      !.index = @ + 1]

keep_video(s) ==
    IF exhausted(s) THEN s
    ELSE [s EXCEPT !.history = Append(@, <<"keep", s.paths[s.index + 1], s.index>>),
                   !.kept_count = @ + 1,
                   !.index = @ + 1]

\* Mutant of undo_keep_video: the counter is not taken back.
undo_keep_video_keeps_count(popped, path, prev_index) ==
    LET pos == list_index(popped.paths, path)
        insert_index == Min(prev_index, Len(popped.paths))
    IN IF pos >= 0
       THEN [popped EXCEPT !.index = pos]
       ELSE [popped EXCEPT !.paths = list_insert(@, insert_index, path),
                           !.index = insert_index]

\* go_back, the branch of a keep entry ("keep", path, prev_index), after the pop
undo_keep_video(popped, path, prev_index) ==
    LET pos == list_index(popped.paths, path)
        insert_index == Min(prev_index, Len(popped.paths))
    IN IF pos >= 0
       THEN [popped EXCEPT !.kept_count = @ - 1, !.index = pos]
       ELSE [popped EXCEPT !.kept_count = @ - 1,
                           !.paths = list_insert(@, insert_index, path),
                           !.index = insert_index]

go_back_video(s, denied) ==
    IF s.history = <<>> THEN s
    ELSE LET action == s.history[Len(s.history)]
             popped == [s EXCEPT !.history = SubSeq(@, 1, Len(@) - 1)]
         IN IF action[1] = "delete"
            THEN LET original_path == action[3]
                     prev_index == action[4]
                     raises == rename_raises(s.deleted_files, s.folder_files, TRUE,
                                             original_path, denied)
                     insert_index == Min(prev_index, Len(s.paths))
                 IN IF raises
                    THEN popped
                    ELSE [popped EXCEPT
                            !.deleted_files = rename_src(s.deleted_files, original_path),
                            !.folder_files = rename_dst(s.deleted_files, s.folder_files,
                                                        original_path),
                            !.paths = list_insert(@, insert_index, original_path),
                            !.index = insert_index,
                            !.deleted_count = @ - 1]
            ELSE undo_keep_video(popped, action[2], action[3])

\* show_video reaches attach_player_to_widget, and with it root.update()
show_video_updates(s) == ~exhausted(s)

(***************************************************************************)
(* VideoReviewer's seek bar.  The media player and the widgets (the slider *)
(* with its variable seek_var, the labels) are outside the model: what     *)
(* they report is an input, what is written to them is dropped.            *)
(***************************************************************************)

\* media_player.get_position(): 0.0 to 1.0 (here the two ends), -1.0 on error
PlayerPositions == {-1, 0, 1}

\* self.seek_var.set(value): written to the slider
seek_var_set(self, value) == self

\* media_player.set_position(seek_var / 1000), errors swallowed
apply_seek(self) == self

on_seek_click(self, new_val) ==
    [apply_seek(seek_var_set(self, new_val)) EXCEPT !.user_is_seeking = TRUE]

start_seek(self) == [self EXCEPT !.user_is_seeking = TRUE]

end_seek(self) == apply_seek([self EXCEPT !.user_is_seeking = FALSE])

on_seek(self, value) == IF self.user_is_seeking THEN self ELSE apply_seek(self)

\* Mutant of update_seek_bar: a clip that has played to its end is kept.
update_seek_bar_keeps(self, is_playing, pos) ==
    IF ~self.user_is_seeking /\ is_playing
    THEN IF 0 <= pos /\ pos <= 1
         THEN seek_var_set([self EXCEPT !.session = IF pos = 1 THEN keep_video(@) ELSE @],
                           pos * SeekTo)
         ELSE self
    ELSE self

\* The body of update_seek_bar; it re-arms itself in every case.
update_seek_bar(self, is_playing, pos) ==
    IF ~self.user_is_seeking /\ is_playing
    THEN IF 0 <= pos /\ pos <= 1
         THEN seek_var_set(self, pos * SeekTo)
         ELSE self
    ELSE self

(***************************************************************************)
(* What the last call was, for the properties below.                       *)
(***************************************************************************)

\* The outcome of the handler's own os.rename: "none" when it made none (a
\* keep, a call that returned at its guard, an undo that raised before it),
\* "ok", or "failed".
delete_fs(s, denied) ==
    IF exhausted(s) THEN "none"
    ELSE IF rename_raises(s.folder_files, s.deleted_files, s.deleted_dir,
                          s.paths[s.index + 1], denied)
         THEN "failed" ELSE "ok"

go_back_fs(s, denied) ==
    IF s.history = <<>> THEN "none"
    ELSE LET action == s.history[Len(s.history)]
         IN IF action[1] # "delete" THEN "none"
            ELSE IF reviewer = "image" /\ Len(action) # 2 THEN "none"
            ELSE IF rename_raises(s.deleted_files, s.folder_files, TRUE,
                                  action[Len(action) - (IF reviewer = "image" THEN 0 ELSE 1)],
                                  denied)
                 THEN "failed" ELSE "ok"

NotClean == [clean |-> FALSE, fwd |-> 0, back |-> 0]

\* A keep or delete call that acted on the current item, moved it when it had
\* to, and deleted nothing else.
forward_ok(op, fs, s, t) ==
    /\ ~exhausted(s)
    /\ IF op = "delete" THEN fs = "ok" /\ Len(t.paths) = Len(s.paths) - 1
                        ELSE Len(t.paths) = Len(s.paths)

run_after(op, fs, s, t) ==
    IF ~run.clean THEN NotClean
    ELSE IF op \in {"keep", "delete"}
         THEN IF run.back = 0 /\ forward_ok(op, fs, s, t)
              THEN [run EXCEPT !.fwd = @ + 1]
              ELSE NotClean
         ELSE IF op = "undo" /\ s.history # <<>> /\ fs # "failed"
              THEN [run EXCEPT !.back = @ + 1]
              ELSE NotClean

\* The call `op` took the session from s to t.
Call(op, fs, exc, s, t) ==
    /\ paths' = t.paths
    /\ index' = t.index
    /\ history' = t.history
    /\ deleted_count' = t.deleted_count
    /\ kept_count' = t.kept_count
    /\ folder_files' = t.folder_files
    /\ deleted_files' = t.deleted_files
    /\ deleted_dir' = t.deleted_dir
    /\ last' = [op |-> op, fs |-> fs, exc |-> exc, deletes |-> t.calls]
    /\ before' = s
    /\ run' = run_after(op, fs, s, t)
    /\ UNCHANGED <<env, phase, deleted_folder, scan, purge_ran>>

(***************************************************************************)
(* The initial states: a folder holding any of the media files, some of    *)
(* them unreadable as images, and possibly a _deleted directory an earlier *)
(* session left behind with files of its own.                              *)
(***************************************************************************)

MediaNames == {f \in Names : endswith_exts(f)}

Init ==
    /\ reviewer \in {"image", "video"}
    /\ platform \in {"posix", "windows"}
    /\ phase = "init"
    /\ folder_files \in {ff \in [Names -> {"none", "cur"}] : ff[0] = "cur"}
    /\ deleted_dir \in BOOLEAN
    /\ deleted_files \in {df \in [Names -> {"none", "old"}] :
                            /\ df[0] = "none"
                            /\ Cardinality({f \in Names : df[f] = "old"}) <= MaxOld
                            /\ ~deleted_dir => \A f \in Names : df[f] = "none"}
    /\ in_update = 0
    /\ user_is_seeking = FALSE
    /\ unreadable \in (IF reviewer = "image"
                       THEN SUBSET {f \in MediaNames : folder_files[f] = "cur"}
                       ELSE {{}})
    /\ deleted_folder = FALSE
    /\ paths = <<>>
    /\ index = 0
    /\ deleted_count = 0
    /\ kept_count = 0
    /\ history = <<>>
    /\ scan = <<>>
    /\ last = [op |-> "none", fs |-> "none", exc |-> "", deletes |-> 0]
    /\ before = Cur
    /\ run = NotClean
    /\ purge_ran = FALSE

\* The orders list.sort(key=str.lower) can leave the set S in: ascending by
\* key, names of equal key in the order os.listdir gave them (any order).
sorted_lists(S) ==
    {q \in [1..Cardinality(S) -> S] :
        /\ \A i, j \in 1..Cardinality(S) : i # j => q[i] # q[j]
        /\ \A i, j \in 1..Cardinality(S) : i < j => lower_key(q[i]) <= lower_key(q[j])}

\* The basenames a call `op` of ImageReviewer may try to move: for a delete
\* the current item and the unreadable items after it, for a keep the
\* unreadable items after the kept one, for an undo the file of the newest
\* history entry.  (Denying the move of any other file changes nothing.)
may_move(op, s) ==
    IF op = "undo"
    THEN IF s.history = <<>> THEN {} ELSE {s.history[Len(s.history)][2]}
    ELSE {s.paths[i] : i \in {j \in (s.index + 1)..Len(s.paths) :
                                \/ op = "delete" /\ j = s.index + 1
                                \/ j > s.index + 1 /\ s.paths[j] \in unreadable}}

(***************************************************************************)
(* The actions: one per handler call.                                      *)
(***************************************************************************)

\* select_folder, called once by __init__.  The dialog may be cancelled.
SelectFolder ==
    /\ phase = "init"
    /\ phase' = "running"
    /\ \E chosen \in BOOLEAN :
         IF ~chosen
         THEN /\ last' = [op |-> "scan", fs |-> "none", exc |-> "", deletes |-> 0]
              /\ before' = Cur
              /\ UNCHANGED <<env, folder_files, deleted_files, deleted_dir, deleted_folder,
                             paths, index, deleted_count, kept_count, history, scan, run,
                             purge_ran, gui>>
         ELSE \E q \in sorted_lists({f \in Names : folder_files[f] # "none" /\ endswith_exts(f)}) :
              \E fails \in SUBSET {q[i] : i \in {j \in 1..Len(q) : q[j] \in unreadable}} :
                LET s == [Cur EXCEPT !.paths = q, !.index = 0, !.deleted_dir = TRUE]
                    t == IF reviewer = "image" THEN show_image(s, fails) ELSE s
                IN /\ paths' = t.paths
                   /\ index' = t.index
                   /\ history' = t.history
                   /\ deleted_count' = t.deleted_count
                   /\ kept_count' = t.kept_count
                   /\ folder_files' = t.folder_files
                   /\ deleted_files' = t.deleted_files
                   /\ deleted_dir' = t.deleted_dir
                   /\ deleted_folder' = TRUE
                   /\ scan' = q
                   /\ last' = [op |-> "scan", fs |-> "none", exc |-> "", deletes |-> t.calls]
                   /\ before' = s
                   /\ run' = [clean |-> (t.paths = q /\ t.history = <<>>), fwd |-> 0, back |-> 0]
                   /\ UNCHANGED <<env, purge_ran, gui>>

DeleteImage ==
    /\ phase = "running" /\ reviewer = "image"
    /\ \E fails \in SUBSET may_move("delete", Cur) :
         Call("delete",
              delete_fs(Cur, ~exhausted(Cur) /\ paths[index + 1] \in fails),
              "", Cur, delete_image(Cur, fails))
    /\ UNCHANGED gui

KeepImage ==
    /\ phase = "running" /\ reviewer = "image"
    /\ \E fails \in SUBSET may_move("keep", Cur) :
         Call("keep", "none", "", Cur, keep_image(Cur, fails))
    /\ UNCHANGED gui

GoBackImage ==
    /\ phase = "running" /\ reviewer = "image"
    /\ \E fails \in SUBSET may_move("undo", Cur) :
         Call("undo",
              go_back_fs(Cur, history # <<>> /\ history[Len(history)][2] \in fails),
              go_back_image_exc(Cur), Cur, go_back_image(Cur, fails))
    /\ UNCHANGED gui

\* A VideoReviewer key handler, up to the point where it returns or, when it
\* called show_video (`shown`) on an item, enters root.update().  Everything
\* it writes to the session it has written by then.  Tk dispatches it from
\* the main loop or from the root.update() of a handler in progress.
Handler(op, fs, s, t, shown) ==
    /\ Call(op, fs, "", s, t)
    /\ LET updates == shown /\ show_video_updates(t)
       IN /\ updates => in_update < MaxNesting
          /\ in_update' = IF updates THEN in_update + 1 ELSE in_update
    /\ UNCHANGED user_is_seeking

DeleteVideo ==
    /\ phase = "running" /\ reviewer = "video"
    /\ \E denied \in BOOLEAN :
         Handler("delete", delete_fs(Cur, denied), Cur, delete_video(Cur, denied),
                 delete_fs(Cur, denied) = "ok")

KeepVideo ==
    /\ phase = "running" /\ reviewer = "video"
    /\ Handler("keep", "none", Cur, keep_video(Cur), ~exhausted(Cur))

GoBackVideo ==
    /\ phase = "running" /\ reviewer = "video"
    /\ \E denied \in BOOLEAN :
         Handler("undo", go_back_fs(Cur, denied), Cur, go_back_video(Cur, denied),
                 history # <<>> /\ go_back_fs(Cur, denied) # "failed")

\* root.update() returns into show_video, which starts the player and resets
\* the seek bar; the handler then refreshes the labels and returns.
EndUpdate ==
    /\ phase = "running" /\ reviewer = "video"
    /\ in_update > 0
    /\ in_update' = in_update - 1
    /\ UNCHANGED <<env, phase, folder_files, deleted_files, deleted_dir, deleted_folder,
                   paths, index, deleted_count, kept_count, history, scan, last, before,
                   run, purge_ran, user_is_seeking>>

\* A seek handler or the polling timer took the object from Self to t.  They
\* run from the main loop or from a root.update() in progress.
Seek(op, t) ==
    /\ phase = "running" /\ reviewer = "video"
    /\ paths' = t.session.paths
    /\ index' = t.session.index
    /\ history' = t.session.history
    /\ deleted_count' = t.session.deleted_count
    /\ kept_count' = t.session.kept_count
    /\ folder_files' = t.session.folder_files
    /\ deleted_files' = t.session.deleted_files
    /\ deleted_dir' = t.session.deleted_dir
    /\ user_is_seeking' = t.user_is_seeking
    /\ last' = [op |-> op, fs |-> "none", exc |-> "", deletes |-> t.session.calls]
    /\ before' = Cur
    /\ UNCHANGED <<env, phase, deleted_folder, scan, run, purge_ran, in_update>>

\* <ButtonPress-1> on the seek bar, at either end of it
OnSeekClick == \E new_val \in {0, SeekTo} : Seek("seek", on_seek_click(Self, new_val))

\* <B1-Motion> on the seek bar
StartSeek == Seek("seek", start_seek(Self))

\* <ButtonRelease-1> on the seek bar
EndSeek == Seek("seek", end_seek(Self))

\* the Scale's command: the slider was moved to `value`
OnSeek == \E value \in {0, SeekTo} : Seek("seek", on_seek(Self, value))

\* the timer root.after(100, self.update_seek_bar) fires
UpdateSeekBar ==
    \E is_playing \in BOOLEAN :
    \E pos \in PlayerPositions :
      Seek("timer", update_seek_bar(Self, is_playing, pos))

\* on_closing asks before it removes _deleted, and only when it holds files
purge_offered ==
    deleted_folder /\ deleted_dir /\ \E f \in Names : deleted_files[f] # "none"

\* shutil.rmtree(self.deleted_folder): `left` are the files it did not
\* remove; the directory goes when nothing is left and rmdir succeeds.
rmtree(left, dir_left) ==
    /\ deleted_files' = [f \in Names |-> IF f \in left THEN deleted_files[f] ELSE "none"]
    /\ deleted_dir' = dir_left
    /\ purge_ran' = TRUE

\* What rmtree can leave behind.  It raises at the first entry it cannot
\* remove; of the runs that fail part-way the model keeps the two extremes,
\* nothing removed and every file removed (only the rmdir failed).
rmtree_left == {{}, {f \in Names : deleted_files[f] # "none"}}

\* askyesno("Permanently Delete", ...) is shown only when the purge is offered
purge_answers == IF purge_offered THEN BOOLEAN ELSE {FALSE}

\* on_closing up to the quit: the purge, when offered and confirmed
Purge(yes) ==
    IF yes
    THEN \E left \in rmtree_left :
         \E dir_left \in BOOLEAN :
           /\ left # {} => dir_left
           /\ rmtree(left, dir_left)
    ELSE UNCHANGED <<deleted_files, deleted_dir, purge_ran>>

\* on_closing; last.fs records the answer to the purge prompt: "yes", "no",
\* or "none" when the prompt was not shown
Closing(yes) ==
    /\ Purge(yes)
    /\ last' = [op |-> "close",
                fs |-> IF yes THEN "yes" ELSE IF purge_offered THEN "no" ELSE "none",
                exc |-> "", deletes |-> 0]
    /\ before' = Cur
    /\ run' = NotClean
    /\ UNCHANGED <<env, folder_files, deleted_folder, paths, index, deleted_count,
                   kept_count, history, scan, gui>>

\* ImageReviewer.on_closing: the window stays open when the quit is cancelled
OnClosingImage ==
    /\ phase = "running" /\ reviewer = "image"
    /\ \E yes \in purge_answers : Closing(yes)
    /\ \E quit \in BOOLEAN : phase' = IF quit THEN "closed" ELSE phase

\* VideoReviewer.on_closing always quits
OnClosingVideo ==
    /\ phase = "running" /\ reviewer = "video"
    /\ \E yes \in purge_answers : Closing(yes)
    /\ phase' = "closed"

Next ==
    \/ SelectFolder
    \/ DeleteImage
    \/ KeepImage
    \/ GoBackImage
    \/ OnClosingImage
    \/ DeleteVideo
    \/ KeepVideo
    \/ GoBackVideo
    \/ OnClosingVideo
    \/ EndUpdate
    \/ OnSeekClick
    \/ StartSeek
    \/ EndSeek
    \/ OnSeek
    \/ UpdateSeekBar

Spec == Init /\ [][Next]_vars

(***************************************************************************)
(* Properties.                                                             *)
(***************************************************************************)

\* remaining + kept + deleted of a session state
Total(s) == (Len(s.paths) - s.index) + s.kept_count + s.deleted_count

\* the last call was a keep, a delete or an undo
UserCall == phase # "init" /\ last.op \in {"keep", "delete", "undo"}

Scanned == {scan[i] : i \in 1..Len(scan)}
InQueue(f) == \E i \in 1..Len(paths) : paths[i] = f

\* queue, cursor, history and counters of s and t agree
SameSession(s, t) ==
    /\ s.paths = t.paths
    /\ s.index = t.index
    /\ s.history = t.history
    /\ s.kept_count = t.kept_count
    /\ s.deleted_count = t.deleted_count

\* C1: a keep, delete or undo call that starts with remaining + kept_count +
\* deleted_count equal to the number of scanned items ends with it equal
\* (so the sum equals the scan's count after every operation), in both
\* reviewers, failed moves and restores included.
C1_Conservation ==
    (UserCall /\ Total(before) = Len(scan)) => Total(Cur) = Len(scan)

\* C2: a delete call in the Active state whose move of the current file fails
\* leaves queue, cursor, history, kept_count and deleted_count as they were.
C2_DeleteFailureAtomic ==
    (UserCall /\ last.op = "delete" /\ last.fs = "failed") => SameSession(Cur, before)

\* C3: a successful delete (one that deleted nothing else) immediately
\* followed by an undo whose restore does not fail puts the file back at its
\* original path and the item back at its queue position with the cursor on
\* it, takes deleted_count back by one, and leaves _deleted without the file.
C3_UndoDeleteRestores ==
    [][(/\ last.op = "delete" /\ last.fs = "ok"
        /\ Len(paths) = Len(before.paths) - 1
        /\ last'.op = "undo" /\ last'.fs # "failed" /\ before' = Cur)
       => LET f == before.paths[before.index + 1]
          IN /\ paths' = before.paths
             /\ index' = before.index
             /\ deleted_count' = deleted_count - 1
             /\ deleted_count' = before.deleted_count
             /\ folder_files'[f] = "cur"
             /\ deleted_files'[f] = "none"]_vars

\* A keep call in the Active state followed at once by an undo call takes the
\* cursor and kept_count back to their values before the keep and leaves the
\* queue as it was then; with no_implicit, only for a keep that deleted no
\* unreadable item.
undo_keep_restores(no_implicit) ==
    (/\ last.op = "keep" /\ ~exhausted(before)
     /\ no_implicit => Len(paths) = Len(before.paths)
     /\ last'.op = "undo" /\ before' = Cur)
    => /\ index' = before.index
       /\ kept_count' = kept_count - 1
       /\ kept_count' = before.kept_count
       /\ paths' = before.paths

\* C4 as claimed: for every Active state, keep() immediately followed by
\* undo() restores the cursor, takes kept_count back by one and leaves the
\* queue's item sequence unchanged.
C4_UndoKeepRestores == [][undo_keep_restores(FALSE)]_vars

\* C4 as amended: the same, for a keep() that triggered no implicit delete
\* (the item after the kept one is readable, or there is none).
C4_UndoKeepRestoresNoImplicitDelete == [][undo_keep_restores(TRUE)]_vars

\* C4 witness: a keep has just been undone, the cursor is back on the item
\* and the counter is back at zero.
C4_Witness ==
    /\ phase = "running" /\ last.op = "undo"
    /\ run.clean /\ run.back = 1
    /\ before.history[Len(before.history)][1] = "keep"
    /\ before.kept_count = 1 /\ kept_count = 0
    /\ index = before.index - 1
    /\ paths[index + 1] = before.history[Len(before.history)][2]

\* C5: an undo call that pops a delete entry and whose restore fails leaves
\* the history as it was (the entry is pushed back) and leaves queue, cursor,
\* kept_count and deleted_count unchanged.
C5_UndoFailureRepushes ==
    (UserCall /\ last.op = "undo" /\ last.fs = "failed") => SameSession(Cur, before)

\* C6: while nothing was purged, a scanned file is at its original path iff
\* its path is in the queue, otherwise it is in _deleted under its basename;
\* and deleted_count is the number of this session's files in _deleted.
C6_DiskMatchesQueue ==
    (phase # "init" /\ ~purge_ran) =>
        /\ \A f \in Scanned :
             /\ folder_files[f] = "cur" <=> InQueue(f)
             /\ ~InQueue(f) => deleted_files[f] = "cur"
        /\ deleted_count = Cardinality({f \in Scanned : deleted_files[f] = "cur"})

\* the state select_folder leaves when every scanned item is readable
AtInitial ==
    /\ paths = scan
    /\ index = 0
    /\ kept_count = 0
    /\ deleted_count = 0
    /\ history = <<>>
    /\ \A f \in Scanned : folder_files[f] = "cur" /\ deleted_files[f] # "cur"

\* C7: from the initial state, n successful keep/delete calls followed by
\* undo calls (no restore failing) leave one history entry fewer per undo
\* call, and after n undo calls the session is in its initial state again.
C7_UndoAllReturnsToInitial ==
    (phase # "init" /\ run.clean) =>
        /\ Len(history) = run.fwd - run.back
        /\ run.fwd = run.back => AtInitial

\* C8: a keep or delete call made when the session is Exhausted (the Empty
\* case included) changes nothing: queue, cursor, history, both counters and
\* both directories are as before the call.
C8_ExhaustedNoOp ==
    (UserCall /\ last.op \in {"keep", "delete"} /\ exhausted(before)) => Cur = before

\* C8 witness: a delete call was made after the session had worked through
\* its queue.
C8_Witness ==
    /\ UserCall /\ last.op = "delete" /\ exhausted(before)
    /\ Len(scan) > 0
    /\ kept_count + deleted_count > 0

\* C9: in every state after construction 0 <= index <= len(queue); and a
\* delete call that removes the last remaining item leaves index = len(queue),
\* the Exhausted state.
C9_IndexInRange ==
    phase # "init" =>
        /\ 0 <= index /\ index <= Len(paths)
        /\ (/\ last.op = "delete" /\ ~exhausted(before)
            /\ before.index = Len(before.paths) - 1
            /\ Len(paths) < Len(before.paths))
           => index = Len(paths)

\* C9 witness: the last remaining item was deleted after another was kept.
C9_Witness ==
    /\ UserCall /\ last.op = "delete" /\ last.fs = "ok"
    /\ before.index = Len(before.paths) - 1
    /\ index = Len(paths) /\ index > 0

\* C10: a delete call never replaces a file that was already in _deleted: every
\* file an earlier session left there is intact after the call, and when the
\* current item's basename is taken there the move fails.
C10_NoSilentOverwrite ==
    (UserCall /\ last.op = "delete" /\ ~exhausted(before)) =>
        /\ \A f \in Names : before.deleted_files[f] = "old" => deleted_files[f] = "old"
        /\ before.deleted_files[before.paths[before.index + 1]] # "none"
             => last.fs = "failed"

\* C11: _deleted is purged only on the user's yes to the purge prompt and
\* only at session end: once rmtree has run, the session is closed, and the
\* call that ran it (the last call ever made) is the on_closing that got the
\* yes, so no keep, delete or undo follows it.
C11_PurgeEndsSession ==
    purge_ran => /\ last.op = "close" /\ last.fs = "yes"
                 /\ phase = "closed"

\* keep, called on s, goes on to render an item that cannot be loaded
keep_renders_unreadable(s) ==
    /\ reviewer = "image"
    /\ s.index + 1 < Len(s.paths)
    /\ image_open_raises(s, s.paths[s.index + 2])

\* A keep call in the Active state moves the cursor by one, adds one to
\* kept_count, pushes one keep entry for the item it was on, and leaves the
\* queue, deleted_count and both directories as they were; with any_next,
\* whatever the next item is, else only when the next item can be loaded.
keep_frame(any_next) ==
    (/\ UserCall /\ last.op = "keep" /\ ~exhausted(before)
     /\ any_next \/ ~keep_renders_unreadable(before))
    => /\ index = before.index + 1
       /\ kept_count = before.kept_count + 1
       /\ Len(history) = Len(before.history) + 1
       /\ SubSeq(history, 1, Len(before.history)) = before.history
       /\ history[Len(history)][1] = "keep"
       /\ history[Len(history)][2] = before.paths[before.index + 1]
       /\ paths = before.paths
       /\ deleted_count = before.deleted_count
       /\ folder_files = before.folder_files
       /\ deleted_files = before.deleted_files
       /\ deleted_dir = before.deleted_dir

\* C12 as claimed: keep() in the Active state changes only the cursor (+1),
\* kept_count (+1) and the history (one keep entry); queue, deleted_count and
\* every file are unchanged, whatever the next item is.
C12_KeepFrame == keep_frame(TRUE)

\* C12 as amended: the same, when the item after the kept one can be loaded
\* or there is none (always so in VideoReviewer, which loads nothing).
C12_KeepFrameReadableNext == keep_frame(FALSE)

\* C12 witness: ImageReviewer kept an item and went on to a readable one
\* while an unreadable one waits further on.
C12_Witness ==
    /\ UserCall /\ last.op = "keep" /\ reviewer = "image"
    /\ ~exhausted(before) /\ ~exhausted(Cur)
    /\ index = before.index + 1
    /\ \E i \in (index + 2)..Len(paths) : paths[i] \in unreadable

\* the items the last call took out of the queue from inside show_image
\* (all it took out, but for the item a delete call was made on)
implicitly_deleted ==
    {before.paths[i] : i \in 1..Len(before.paths)}
      \ ({paths[i] : i \in 1..Len(paths)}
           \cup (IF last.op = "delete" /\ ~exhausted(before)
                 THEN {before.paths[before.index + 1]} ELSE {}))

\* the current item can be loaded, or there is none
current_readable == exhausted(Cur) \/ ~image_open_raises(Cur, paths[index + 1])

\* every implicitly deleted item went through the transition of delete():
\* moved to _deleted, a delete entry pushed, deleted_count incremented
implicit_deletes_complete ==
    /\ \A f \in implicitly_deleted :
         /\ folder_files[f] = "none"
         /\ deleted_files[f] = "cur"
         /\ \E i \in (Len(before.history) + 1)..Len(history) : history[i] = <<"delete", f, f>>
    /\ deleted_count - before.deleted_count
         = Cardinality(implicitly_deleted)
             + (IF last.op = "delete" /\ last.fs = "ok" THEN 1 ELSE 0)

\* C13: whenever rendering finds the current item unreadable the session
\* makes the transition of delete() on it (file moved to _deleted, item
\* removed, delete entry pushed, deleted_count incremented) and goes on to the
\* next item; so when a call returns the current item is readable or the
\* session is Exhausted.
C13_ImplicitDelete ==
    (phase # "init" /\ last.op \in {"scan", "keep", "delete"})
    => implicit_deletes_complete /\ current_readable

\* C16: in every reachable state of both reviewers the queue is a
\* duplicate-free subsequence of the initial sorted scan order, whatever keep,
\* delete and undo calls were made (undos that dropped a history entry
\* included).
C16_QueueSubsequence ==
    phase # "init"
    => /\ \A i \in 1..Len(paths) : paths[i] \in Scanned
       /\ \A i, j \in 1..Len(paths) :
            i < j => /\ paths[i] # paths[j]
                     /\ \E a, b \in 1..Len(scan) :
                          a < b /\ scan[a] = paths[i] /\ scan[b] = paths[j]

\* an undo put an item back in front of another one, after an earlier undo
\* had dropped its history entry on a failed restore
C16_Witness ==
    /\ UserCall /\ last.op = "undo" /\ last.fs = "ok"
    /\ Len(paths) = Len(before.paths) + 1
    /\ index + 1 < Len(paths)
    /\ deleted_count > Cardinality({i \in 1..Len(history) : history[i][1] = "delete"})

\* C17: in every reachable state of both reviewers kept_count equals the
\* cursor index and deleted_count is not negative, after any keep, delete and
\* undo calls, failed moves, failed restores and handlers that raised
\* included.
C17_CountersMatchCursor ==
    phase # "init" => /\ kept_count = index
                      /\ kept_count >= 0
                      /\ deleted_count >= 0

\* an undo raised after it wrote the counter and the cursor, in a session
\* that had lost an item to a failed move
C17_Witness ==
    /\ UserCall /\ last.op = "undo" /\ last.exc = "TypeError"
    /\ index >= 1
    /\ Len(paths) + deleted_count < Len(scan)

\* the delete_image calls the last call made from inside show_image (a delete
\* call's own delete_image is the user's, not a nested one)
nested_deletes == last.deletes - (IF last.op = "delete" THEN 1 ELSE 0)

\* C18: in ImageReviewer the recursion show_image -> delete_image ->
\* show_image ends: from a queue of n items it makes at most n - index nested
\* delete_image calls and then stands on a readable item or is Exhausted,
\* whether the moves succeed or not.
C18_RecursionBounded ==
    (phase # "init" /\ reviewer = "image")
    => /\ nested_deletes >= 0
       /\ nested_deletes <= Len(before.paths) - before.index
       /\ current_readable

\* a keep ran into two unreadable items in a row; one move failed, one did not
C18_Witness ==
    /\ phase # "init" /\ reviewer = "image" /\ last.op = "keep"
    /\ nested_deletes >= 2
    /\ deleted_count = before.deleted_count + 1

\* C14: each keep, delete and undo handler runs to completion before another
\* handler starts: while a handler is in progress (inside root.update()) no
\* keep, delete or undo call is made.
C14_OneHandlerAtATime ==
    [][in_update > 0
       => ~(/\ last'.op \in {"keep", "delete", "undo"}
            /\ last' # last \/ before' # before)]_vars

\* C15: the seek bar's polling timer and the seek handlers leave the queue,
\* the cursor, the history, kept_count and deleted_count as they found them,
\* whenever they fire.
C15_SeekLeavesSession ==
    (phase # "init" /\ last.op \in {"timer", "seek"})
    => /\ paths = before.paths
       /\ index = before.index
       /\ history = before.history
       /\ kept_count = before.kept_count
       /\ deleted_count = before.deleted_count

\* the timer fired from the root.update() of a handler in progress, between
\* the press and the release of a drag, with items left to review
C15_Witness ==
    /\ phase = "running" /\ last.op = "timer"
    /\ in_update >= 1
    /\ user_is_seeking
    /\ history # <<>> /\ ~exhausted(Cur)

====
